---- MODULE Spec2Model ----
(***************************************************************************)
(* A model of the api_yamdb REST service: the users, the catalog           *)
(* (categories, genres, titles, the GenreTitle join rows), the reviews and *)
(* the comments held by the store, and one action per request handler.     *)
(* Every handler is modelled whole: permission checks, field validation,   *)
(* validators, the write and the response.  The last request handled, its  *)
(* response and the mail it sent are part of the state, so that what a     *)
(* handler answers can be stated next to what it changed.                  *)
(*                                                                         *)
(* Text values are sequences of one-character strings, so that the         *)
(* whitespace stripping done by the serializer fields is computed and not  *)
(* assumed.                                                                *)
(***************************************************************************)
EXTENDS Integers, Sequences, FiniteSets, TLC

VARIABLES
    users,        \* the User table: a sequence of rows, the index is the pk
    categories,   \* the Category table: the set of slugs
    genres,       \* the Genre table: the set of slugs
    titles,       \* the Title table: pk -> row
    genre_title,  \* the GenreTitle table: the set of <<title pk, genre slug>> rows
    reviews,      \* the Review table: pk -> row
    comments,     \* the Comment table: pk -> row
    seq,          \* the store's primary-key sequences of titles, reviews, comments
    or_checks_has_permission, \* which rest_framework build is installed (see OR)
    request,      \* the request handled last
    response,     \* its response
    mail          \* the mail it sent, or NoMail

vars == <<users, categories, genres, titles, genre_title, reviews, comments,
          seq, or_checks_has_permission, request, response, mail>>

store == <<users, categories, genres, titles, genre_title, reviews, comments, seq>>

-----------------------------------------------------------------------------
(* Bounds of the model. *)

MaxUsers == 3
MaxTitles == 2
MaxReviews == 2
MaxComments == 1

-----------------------------------------------------------------------------
(* Text. *)

SP == " "

Str(c) == <<c>>

Blank == <<>>

Pad(s) == <<SP>> \o s

RECURSIVE LStrip(_)
LStrip(s) == IF s # <<>> /\ Head(s) = SP THEN LStrip(Tail(s)) ELSE s

RECURSIVE RStrip(_)
RStrip(s) == IF s # <<>> /\ s[Len(s)] = SP THEN RStrip(SubSeq(s, 1, Len(s) - 1)) ELSE s

Strip(s) == RStrip(LStrip(s))

(* serializers.CharField with its defaults (allow_blank=False,             *)
(* trim_whitespace=True): a value that is empty once stripped fails with   *)
(* "blank"; any other value is stripped.                                   *)
CharField(data) == [ok |-> Strip(data) # Blank, value |-> Strip(data)]

ME == <<"m", "e">>

-----------------------------------------------------------------------------
(* Users and roles. *)

ROLES == {"user", "moderator", "admin"}

Anonymous == 0

UserIds == 1 .. Len(users)

(* rest_framework's `empty`: a field the payload does not carry.  Absent   *)
(* stands for a missing choice field, Missing for a missing text field.    *)
Absent == "absent"

Missing == <<"<empty>">>

(* The role a new row gets when none is given: the model field's default. *)
DefaultRole == "user"

(* The confirmation code of a row created without one: the field's default. *)
DefaultCode == Blank

NoMail == [to |-> Blank, code |-> Blank, sent |-> FALSE]

Mail(to, code) == [to |-> to, code |-> code, sent |-> TRUE]

is_anonymous(u) == u = Anonymous

is_superuser(u) == IF u = Anonymous THEN FALSE ELSE users[u].is_superuser

role(u) == users[u].role

ByUsername(name) == {i \in UserIds : users[i].username = name}

ByEmail(email) == {i \in UserIds : users[i].email = email}

-----------------------------------------------------------------------------
(* Permissions.  A permission evaluated for a request is the pair of its   *)
(* has_permission and has_object_permission answers.                       *)

SAFE_METHODS == {"GET", "HEAD", "OPTIONS"}

NoObject == -1

IsAuthenticated(u) == [hp |-> ~is_anonymous(u), hop |-> TRUE]

IsReadOnly(method) == [hp |-> method \in SAFE_METHODS, hop |-> TRUE]

IsAdmin(u) ==
    LET ok == IF is_anonymous(u) THEN FALSE ELSE role(u) = "admin"
    IN  [hp |-> ok, hop |-> ok]

IsSuperuser(u) == [hp |-> is_superuser(u), hop |-> is_superuser(u)]

IsModerator(u) ==
    LET ok == IF is_anonymous(u) THEN FALSE ELSE role(u) = "moderator"
    IN  [hp |-> ok, hop |-> ok]

(* has_permission is inherited from BasePermission and answers True. *)
IsAuthor(u, author) == [hp |-> TRUE, hop |-> author = u]

(* The & of two permission classes. *)
AND(a, b) == [hp |-> a.hp /\ b.hp, hop |-> a.hop /\ b.hop]

(* The | of two permission classes.  rest_framework before 3.14 answers    *)
(* has_object_permission with op1.hop or op2.hop; from 3.14 on each side   *)
(* must also pass its own has_permission.  The installed build is not      *)
(* pinned by the sources, so both are possible.                            *)
OR(a, b) ==
    [hp  |-> a.hp \/ b.hp,
     hop |-> IF or_checks_has_permission
             THEN (a.hp /\ a.hop) \/ (b.hp /\ b.hop)
             ELSE a.hop \/ b.hop]

(* Requests are handled one at a time, each to its end: a handler starts   *)
(* when no request is being answered, and Deliver hands the response back. *)
NoRequest == [op |-> "none", caller |-> Anonymous]

NoResponse == [status |-> 0]

Idle == request = NoRequest

Deliver ==
    /\ ~Idle
    /\ request' = NoRequest
    /\ response' = NoResponse
    /\ mail' = NoMail
    /\ UNCHANGED <<store, or_checks_has_permission>>

(* The status of a request refused by the permission check. *)
Denied(u) == IF is_anonymous(u) THEN 401 ELSE 403

Callers == {Anonymous} \cup UserIds

-----------------------------------------------------------------------------
(* Values the requests are drawn from. *)

RawUsernames == {ME, Str("a"), Pad(Str("a")), Blank}

RawEmails == {<<"p", "@">>, <<"q", "@">>}

Codes == {Str("x"), Str("y"), Str("z")}

RawCodes == {Str("x"), Str("y"), Pad(Str("x")), Blank}

RawRoles == {"admin", "nobody"}

(* uuid.uuid4(): a code no row holds yet. *)
FreshCodes == {c \in Codes : \A i \in UserIds : users[i].confirmation_code # c}

Superuser0 ==
    [username |-> Str("r"), email |-> <<"r", "@">>, role |-> DefaultRole,
     is_superuser |-> TRUE, confirmation_code |-> DefaultCode]

-----------------------------------------------------------------------------
(* Registration and token issuance. *)

(* RegisterSerializer.validate_username *)
validate_username(value) == value # ME

(* The unique=True validators of username and email; `self` is the row     *)
(* being updated (excluded from the lookup) or 0 on create.                *)
UniqueUsername(value, self) == ByUsername(value) \ {self} = {}

UniqueEmail(value, self) == ByEmail(value) \ {self} = {}

(* RegisterSerializer.is_valid: field validation, the unique validators,   *)
(* then validate_username.                                                 *)
RegisterSerializerValid(username, email) ==
    /\ CharField(username).ok
    /\ CharField(email).ok
    /\ UniqueUsername(CharField(username).value, 0)
    /\ validate_username(CharField(username).value)
    /\ UniqueEmail(CharField(email).value, 0)

NewUser(username, email, r, code) ==
    [username |-> username, email |-> email, role |-> r,
     is_superuser |-> FALSE, confirmation_code |-> code]

(* A mutant of the resend branch: a new code is mailed instead of the      *)
(* stored one.                                                             *)
ResendCodeFresh(u) == CHOOSE c \in Codes : c # users[u].confirmation_code

(* The code the resend branch mails. *)
ResendCode(u) == users[u].confirmation_code

(* RegisterViewSet.create with perform_create.  mail_ok: whether send_mail *)
(* succeeds; rolled_back: whether the store undoes the request's writes    *)
(* when the request ends in an unhandled exception (ATOMIC_REQUESTS).      *)
RegisterCreate(username, email, mail_ok, rolled_back) ==
    LET found == {i \in UserIds : users[i].username = username
                                  /\ users[i].email = email}
    IN  /\ request' = [op |-> "register", caller |-> Anonymous,
                       username |-> username, email |-> email]
        /\ UNCHANGED <<categories, genres, titles, genre_title, reviews,
                       comments, seq, or_checks_has_permission>>
        /\ IF found # {} /\ mail_ok
           THEN LET u == CHOOSE i \in found : TRUE
                IN  /\ mail' = Mail(email, ResendCode(u))
                    /\ response' = [status |-> 200]
                    /\ users' = users
           ELSE IF ~RegisterSerializerValid(username, email)
           THEN /\ mail' = NoMail
                /\ response' = [status |-> 400]
                /\ users' = users
           ELSE /\ Len(users) < MaxUsers
                /\ \E code \in FreshCodes :
                     LET row == NewUser(CharField(username).value,
                                        CharField(email).value,
                                        DefaultRole, code)
                     IN  IF mail_ok
                         THEN /\ users' = Append(users, row)
                              /\ mail' = Mail(row.email, code)
                              /\ response' = [status |-> 200]
                         ELSE /\ users' = IF rolled_back THEN users
                                          ELSE Append(users, row)
                              /\ mail' = NoMail
                              /\ response' = [status |-> 500]

Register ==
    /\ Idle
    /\ \E username \in RawUsernames, email \in RawEmails,
       outcome \in {<<TRUE, FALSE>>, <<FALSE, FALSE>>, <<FALSE, TRUE>>} :
        RegisterCreate(username, email, outcome[1], outcome[2])

(* A mutant of the comparison in ObtainTokenSerializer.validate: any       *)
(* non-blank code is accepted.                                             *)
CodeMatchesAny(code, u) == TRUE

(* The comparison of ObtainTokenSerializer.validate. *)
CodeMatches(code, u) == code = users[u].confirmation_code

(* ObtainTokenView.post with ObtainTokenSerializer: the two CharFields,    *)
(* then validate (the lookup by username, the comparison of the codes),    *)
(* then the token for the user of that username.                           *)
ObtainTokenPost(username, confirmation_code) ==
    LET name  == CharField(username)
        code  == CharField(confirmation_code)
        found == ByUsername(name.value)
    IN  /\ request' = [op |-> "token", caller |-> Anonymous,
                       username |-> username,
                       confirmation_code |-> confirmation_code]
        /\ mail' = NoMail
        /\ UNCHANGED <<store, or_checks_has_permission>>
        /\ response' =
             IF ~name.ok \/ ~code.ok THEN [status |-> 400, token |-> Anonymous]
             ELSE IF found = {} THEN [status |-> 404, token |-> Anonymous]
             ELSE LET u == CHOOSE i \in found : TRUE
                  IN  IF ~CodeMatches(code.value, u)
                      THEN [status |-> 400, token |-> Anonymous]
                      ELSE [status |-> 200, token |-> u]

ObtainToken ==
    /\ Idle
    /\ \E username \in RawUsernames, code \in RawCodes :
        ObtainTokenPost(username, code)

-----------------------------------------------------------------------------
(* The users endpoint and the self-profile. *)

UsersManagePermission(u) == AND(IsAuthenticated(u), OR(IsAdmin(u), IsSuperuser(u)))

(* UsersManageViewSet.create with perform_create: UsersManageSerializer    *)
(* has no validate_username.                                               *)
UsersManageCreate(caller, username, email, r) ==
    LET name == CharField(username)
        addr == CharField(email)
        ok   == /\ name.ok /\ addr.ok
                /\ UniqueUsername(name.value, 0)
                /\ UniqueEmail(addr.value, 0)
                /\ r \in ROLES
    IN  /\ request' = [op |-> "users_create", caller |-> caller,
                       username |-> username, email |-> email, role |-> r]
        /\ mail' = NoMail
        /\ UNCHANGED <<categories, genres, titles, genre_title, reviews,
                       comments, seq, or_checks_has_permission>>
        /\ IF ~UsersManagePermission(caller).hp
           THEN /\ response' = [status |-> Denied(caller)]
                /\ users' = users
           ELSE IF ~ok
           THEN /\ response' = [status |-> 400]
                /\ users' = users
           ELSE /\ Len(users) < MaxUsers
                /\ \E code \in FreshCodes :
                     users' = Append(users, NewUser(name.value, addr.value, r, code))
                /\ response' = [status |-> 201]

UsersCreate ==
    /\ Idle
    /\ \E caller \in Callers, username \in RawUsernames, email \in RawEmails,
       r \in RawRoles :
        UsersManageCreate(caller, username, email, r)

(* The fields a serializer writes from a partial payload: each payload     *)
(* field is Absent or a raw value.                                         *)
Written(row, name, addr, r) ==
    [row EXCEPT !.username = IF name = Missing THEN @ ELSE CharField(name).value,
                !.email    = IF addr = Missing THEN @ ELSE CharField(addr).value,
                !.role     = IF r = Absent THEN @ ELSE r]

PayloadValid(self, name, addr, r) ==
    /\ name # Missing => CharField(name).ok /\ UniqueUsername(CharField(name).value, self)
    /\ addr # Missing => CharField(addr).ok /\ UniqueEmail(CharField(addr).value, self)
    /\ r # Absent => r \in ROLES

(* UsersManageViewSet.partial_update: the row is looked up by username. *)
UsersManagePartialUpdate(caller, lookup, name, addr, r) ==
    LET found == ByUsername(lookup)
        perm  == UsersManagePermission(caller)
    IN  /\ request' = [op |-> "users_partial_update", caller |-> caller,
                       lookup |-> lookup, username |-> name, email |-> addr,
                       role |-> r]
        /\ mail' = NoMail
        /\ UNCHANGED <<categories, genres, titles, genre_title, reviews,
                       comments, seq, or_checks_has_permission>>
        /\ IF ~perm.hp
           THEN /\ response' = [status |-> Denied(caller)]
                /\ users' = users
           ELSE IF found = {}
           THEN /\ response' = [status |-> 404]
                /\ users' = users
           ELSE LET u == CHOOSE i \in found : TRUE
                IN  IF ~perm.hop
                    THEN /\ response' = [status |-> 403]
                         /\ users' = users
                    ELSE IF ~PayloadValid(u, name, addr, r)
                    THEN /\ response' = [status |-> 400]
                         /\ users' = users
                    ELSE /\ response' = [status |-> 200]
                         /\ users' = [users EXCEPT ![u] = Written(@, name, addr, r)]

UsersPartialUpdate ==
    /\ Idle
    /\ \E caller \in Callers, lookup \in {Str("r"), Str("a"), ME},
       name \in {Missing, ME}, r \in {Absent} \cup RawRoles :
        UsersManagePartialUpdate(caller, lookup, name, Missing, r)

(* A mutant of SelfProfileSerializer: Meta without read_only_fields. *)
SelfProfileFieldsAllWritable(r) == r

(* SelfProfileSerializer: role is in read_only_fields, so the role of the  *)
(* payload never reaches validated_data.                                   *)
SelfProfileFields(r) == Absent

(* The row UsersManageViewSet.me reads and writes: that of request.user. *)
MeProfile(caller) == caller

(* UsersManageViewSet.me, GET *)
UsersManageMeGet(caller) ==
    /\ request' = [op |-> "me_get", caller |-> caller]
    /\ mail' = NoMail
    /\ UNCHANGED <<store, or_checks_has_permission>>
    /\ response' = IF ~IsAuthenticated(caller).hp
                   THEN [status |-> Denied(caller)]
                   ELSE [status |-> 200, pk |-> MeProfile(caller),
                         data |-> users[MeProfile(caller)]]

MeGet == Idle /\ \E caller \in Callers : UsersManageMeGet(caller)

(* UsersManageViewSet.me, PATCH: SelfProfileSerializer(partial=True) on    *)
(* request.user, then perform_update.                                      *)
UsersManageMePatch(caller, name, addr, r) ==
    /\ request' = [op |-> "me_patch", caller |-> caller,
                   username |-> name, email |-> addr, role |-> r]
    /\ mail' = NoMail
    /\ UNCHANGED <<categories, genres, titles, genre_title, reviews,
                   comments, seq, or_checks_has_permission>>
    /\ IF ~IsAuthenticated(caller).hp
       THEN /\ response' = [status |-> Denied(caller)]
            /\ users' = users
       ELSE LET u == MeProfile(caller)
                w == SelfProfileFields(r)
            IN  IF ~PayloadValid(u, name, addr, w)
                THEN /\ response' = [status |-> 400]
                     /\ users' = users
                ELSE /\ users' = [users EXCEPT ![u] = Written(@, name, addr, w)]
                     /\ response' = [status |-> 200, pk |-> u, data |-> users'[u]]

MePatch ==
    /\ Idle
    /\ \E caller \in Callers, name \in {Missing} \cup RawUsernames,
       addr \in {Missing, <<"q", "@">>}, r \in {Absent, "admin", "nobody"} :
        UsersManageMePatch(caller, name, addr, r)

-----------------------------------------------------------------------------
(* The catalog: categories, genres, titles and the GenreTitle rows.        *)
(* A title row holds its name and its category; the titles of the model    *)
(* are all of one year.                                                    *)

NoCategory == "null"

(* rest_framework's `empty` for a field that takes a list. *)
MissingList == {Absent}

CategorySlugs == {"c1"}

GenreSlugs == {"g1", "g2"}

TitleNames == {Str("n"), Str("o")}

TitleIds == DOMAIN titles

GenresOf(pk) == {g \in genres : <<pk, g>> \in genre_title}

RowsOf(pk) == {row \in genre_title : row[1] = pk}

(* A mutant of the permission of the catalog views: the read-only          *)
(* alternative alone is missing, but any authenticated caller passes.      *)
CatalogPermissionAnyUser(u, method) == OR(IsAuthenticated(u), IsReadOnly(method))

(* permission_classes of SlugNameViewSet and of TitleViewSet *)
CatalogPermission(u, method) ==
    OR(AND(IsAuthenticated(u), OR(IsAdmin(u), IsSuperuser(u))), IsReadOnly(method))

(* What deleting a category or a genre does to the rows that refer to it:  *)
(* the titles of a deleted category keep no category, the GenreTitle rows  *)
(* of a deleted genre go with it.                                          *)
OnDeleteCategory(slug) ==
    [pk \in TitleIds |->
        IF titles[pk].category = slug
        THEN [titles[pk] EXCEPT !.category = NoCategory]
        ELSE titles[pk]]

OnDeleteGenre(slug) == {row \in genre_title : row[2] # slug}

Table(kind) == IF kind = "category" THEN categories ELSE genres

(* CategoryViewSet / GenreViewSet, list *)
SlugNameList(kind, caller) ==
    /\ request' = [op |-> "list", resource |-> kind, caller |-> caller]
    /\ mail' = NoMail
    /\ UNCHANGED <<store, or_checks_has_permission>>
    /\ response' = IF ~CatalogPermission(caller, "GET").hp
                   THEN [status |-> Denied(caller)]
                   ELSE [status |-> 200, data |-> Table(kind)]

(* CategoryViewSet / GenreViewSet, create: CategorySerializer and          *)
(* GenreSerializer validate the slug with a UniqueValidator.               *)
SlugNameCreate(kind, caller, slug) ==
    /\ request' = [op |-> "create", resource |-> kind, caller |-> caller,
                   slug |-> slug]
    /\ mail' = NoMail
    /\ UNCHANGED <<users, titles, genre_title, reviews, comments, seq,
                   or_checks_has_permission>>
    /\ IF ~CatalogPermission(caller, "POST").hp
       THEN /\ response' = [status |-> Denied(caller)]
            /\ UNCHANGED <<categories, genres>>
       ELSE IF slug \in Table(kind)
       THEN /\ response' = [status |-> 400]
            /\ UNCHANGED <<categories, genres>>
       ELSE /\ response' = [status |-> 201]
            /\ categories' = IF kind = "category" THEN categories \cup {slug}
                             ELSE categories
            /\ genres' = IF kind = "genre" THEN genres \cup {slug} ELSE genres

(* CategoryViewSet / GenreViewSet, destroy: the row is looked up by slug. *)
SlugNameDestroy(kind, caller, slug) ==
    LET perm == CatalogPermission(caller, "DELETE")
    IN  /\ request' = [op |-> "destroy", resource |-> kind, caller |-> caller,
                       slug |-> slug]
        /\ mail' = NoMail
        /\ UNCHANGED <<users, reviews, comments, seq, or_checks_has_permission>>
        /\ IF ~perm.hp
           THEN /\ response' = [status |-> Denied(caller)]
                /\ UNCHANGED <<categories, genres, titles, genre_title>>
           ELSE IF slug \notin Table(kind)
           THEN /\ response' = [status |-> 404]
                /\ UNCHANGED <<categories, genres, titles, genre_title>>
           ELSE IF ~perm.hop
           THEN /\ response' = [status |-> 403]
                /\ UNCHANGED <<categories, genres, titles, genre_title>>
           ELSE /\ response' = [status |-> 204]
                /\ IF kind = "category"
                   THEN /\ categories' = categories \ {slug}
                        /\ titles' = OnDeleteCategory(slug)
                        /\ UNCHANGED <<genres, genre_title>>
                   ELSE /\ genres' = genres \ {slug}
                        /\ genre_title' = OnDeleteGenre(slug)
                        /\ UNCHANGED <<categories, titles>>

SlugNameLists ==
    /\ Idle
    /\ \E caller \in Callers, kind \in {"category", "genre"} :
         SlugNameList(kind, caller)

CategoryCreates ==
    /\ Idle
    /\ \E caller \in Callers, slug \in CategorySlugs :
         SlugNameCreate("category", caller, slug)

CategoryDestroys ==
    /\ Idle
    /\ \E caller \in Callers, slug \in CategorySlugs :
         SlugNameDestroy("category", caller, slug)

GenreCreates ==
    /\ Idle
    /\ \E caller \in Callers, slug \in GenreSlugs :
         SlugNameCreate("genre", caller, slug)

GenreDestroys ==
    /\ Idle
    /\ \E caller \in Callers, slug \in GenreSlugs :
         SlugNameDestroy("genre", caller, slug)

(* The UniqueTogetherValidator of TitleSerializer: no other title of that  *)
(* name (and year) in that category.  On an update the fields the payload  *)
(* leaves out are taken from the instance, the instance itself is left     *)
(* out of the lookup, and a field that is None switches the check off.     *)
UniqueTitle(self, name, category) ==
    \/ category = NoCategory
    \/ \A pk \in TitleIds \ {self} :
         ~(titles[pk].name = name /\ titles[pk].category = category)

(* The SlugRelatedField of category and the many=True one of genre: every  *)
(* slug must name a row.                                                   *)
SlugsExist(category, genre) ==
    /\ category # Absent => category \in categories
    /\ genre # MissingList => genre \subseteq genres

(* TitleViewSet.create with TitleSerializer.create *)
TitleCreate(caller, name, category, genre) ==
    LET valid == /\ name # Missing /\ CharField(name).ok
                 /\ category # Absent
                 /\ genre # MissingList
                 /\ SlugsExist(category, genre)
                 /\ UniqueTitle(0, CharField(name).value, category)
        pk == seq.title + 1
    IN  /\ request' = [op |-> "title_create", caller |-> caller, name |-> name,
                       category |-> category, genre |-> genre]
        /\ mail' = NoMail
        /\ UNCHANGED <<users, categories, genres, reviews, comments,
                       or_checks_has_permission>>
        /\ IF ~CatalogPermission(caller, "POST").hp
           THEN /\ response' = [status |-> Denied(caller)]
                /\ UNCHANGED <<titles, genre_title, seq>>
           ELSE IF ~valid
           THEN /\ response' = [status |-> 400]
                /\ UNCHANGED <<titles, genre_title, seq>>
           ELSE /\ seq.title < MaxTitles
                /\ seq' = [seq EXCEPT !.title = pk]
                /\ titles' = [i \in TitleIds \cup {pk} |->
                                IF i = pk
                                THEN [name |-> CharField(name).value,
                                      category |-> category]
                                ELSE titles[i]]
                /\ genre_title' = genre_title \cup {<<pk, g>> : g \in genre}
                /\ response' = [status |-> 201, pk |-> pk]

(* validated_data.pop('genre') if 'genre' in validated_data else [] *)
GenresPopped(pk, genre) == IF genre = MissingList THEN {} ELSE genre

(* The Genre.objects.get call in the loop of TitleSerializer.update        *)
(* unpacks `genre` as keyword arguments; `genre` is a Genre row, not a     *)
(* mapping, so the call raises TypeError on the first genre of a list that *)
(* has one.                                                                *)
GenreLookupFails(genre_list) == genre_list # {}

(* TitleViewSet.partial_update with TitleSerializer.update.  rolled_back:  *)
(* whether the store undoes the request's writes when the request ends in  *)
(* an unhandled exception (ATOMIC_REQUESTS).                               *)
TitlePartialUpdate(caller, pk, name, category, genre, rolled_back) ==
    LET perm == CatalogPermission(caller, "PATCH")
        new_name == IF name = Missing THEN titles[pk].name ELSE CharField(name).value
        new_category == IF category = Absent THEN titles[pk].category ELSE category
        valid == /\ name # Missing => CharField(name).ok
                 /\ SlugsExist(category, genre)
                 /\ UniqueTitle(pk, new_name, new_category)
        popped == GenresPopped(pk, genre)
    IN  /\ request' = [op |-> "title_partial_update", caller |-> caller,
                       pk |-> pk, name |-> name, category |-> category,
                       genre |-> genre]
        /\ mail' = NoMail
        /\ UNCHANGED <<users, categories, genres, reviews, comments, seq,
                       or_checks_has_permission>>
        /\ IF ~perm.hp
           THEN /\ response' = [status |-> Denied(caller)]
                /\ UNCHANGED <<titles, genre_title>>
           ELSE IF pk \notin TitleIds
           THEN /\ response' = [status |-> 404]
                /\ UNCHANGED <<titles, genre_title>>
           ELSE IF ~perm.hop
           THEN /\ response' = [status |-> 403]
                /\ UNCHANGED <<titles, genre_title>>
           ELSE IF ~valid
           THEN /\ response' = [status |-> 400]
                /\ UNCHANGED <<titles, genre_title>>
           ELSE IF GenreLookupFails(popped)
           THEN \* the rows are deleted, the loop raises, instance.save()
                \* is never reached
                /\ response' = [status |-> 500]
                /\ titles' = titles
                /\ genre_title' = IF rolled_back THEN genre_title
                                  ELSE genre_title \ RowsOf(pk)
           ELSE /\ response' = [status |-> 200]
                /\ titles' = [titles EXCEPT ![pk] =
                                [name |-> new_name, category |-> new_category]]
                /\ genre_title' = (genre_title \ RowsOf(pk))
                                    \cup {<<pk, g>> : g \in popped}

(* TitleViewSet.update (PUT): get_serializer_class answers                 *)
(* ReadOnlyTitleSerializer, whose genre and category are read-only and     *)
(* whose rating is a required field; ModelSerializer.update writes the     *)
(* rest to the row.                                                        *)
TitleUpdate(caller, pk, name, rating) ==
    LET perm == CatalogPermission(caller, "PUT")
        valid == /\ name # Missing /\ CharField(name).ok
                 /\ rating # Absent
    IN  /\ request' = [op |-> "title_update", caller |-> caller, pk |-> pk,
                       name |-> name, rating |-> rating]
        /\ mail' = NoMail
        /\ UNCHANGED <<users, categories, genres, genre_title, reviews,
                       comments, seq, or_checks_has_permission>>
        /\ IF ~perm.hp
           THEN /\ response' = [status |-> Denied(caller)]
                /\ titles' = titles
           ELSE IF pk \notin TitleIds
           THEN /\ response' = [status |-> 404]
                /\ titles' = titles
           ELSE IF ~perm.hop
           THEN /\ response' = [status |-> 403]
                /\ titles' = titles
           ELSE IF ~valid
           THEN /\ response' = [status |-> 400]
                /\ titles' = titles
           ELSE /\ response' = [status |-> 200]
                /\ titles' = [titles EXCEPT ![pk].name = CharField(name).value]

RawGenreLists == {MissingList, {}, {"g1"}, GenreSlugs}

TitleCreates ==
    /\ Idle
    /\ \E caller \in Callers, name \in TitleNames \cup {Missing},
          category \in CategorySlugs \cup {Absent}, genre \in RawGenreLists :
         TitleCreate(caller, name, category, genre)

TitlePartialUpdates ==
    /\ Idle
    /\ \E caller \in Callers, pk \in 1 .. MaxTitles,
          name \in {Missing, Str("o")}, category \in CategorySlugs \cup {Absent},
          genre \in RawGenreLists, rolled_back \in BOOLEAN :
         TitlePartialUpdate(caller, pk, name, category, genre, rolled_back)

TitleUpdates ==
    /\ Idle
    /\ \E caller \in Callers, pk \in 1 .. MaxTitles, name \in {Str("o")},
          rating \in {Absent, "7"} :
         TitleUpdate(caller, pk, name, rating)

-----------------------------------------------------------------------------
(* Reviews, comments and the rating of a title.                            *)

MinScore == 1

MaxScore == 10

ReviewIds == DOMAIN reviews

CommentIds == DOMAIN comments

ReviewsOf(title) == {pk \in ReviewIds : reviews[pk].title = title}

CommentsOf(review) == {pk \in CommentIds : comments[pk].review = review}

RECURSIVE SumScores(_)
SumScores(pks) ==
    IF pks = {} THEN 0
    ELSE LET pk == CHOOSE x \in pks : TRUE
         IN  reviews[pk].score + SumScores(pks \ {pk})

Null == [null |-> TRUE, num |-> 0, den |-> 1]

(* A mutant of the annotation: Sum in the place of Avg. *)
AvgAsSum(title) ==
    IF ReviewsOf(title) = {} THEN Null
    ELSE [null |-> FALSE, num |-> SumScores(ReviewsOf(title)), den |-> 1]

(* annotate(rating=Avg('reviews__score')): NULL for a title without        *)
(* reviews, else the mean, kept here as the fraction num / den.            *)
Avg(title) ==
    IF ReviewsOf(title) = {} THEN Null
    ELSE [null |-> FALSE, num |-> SumScores(ReviewsOf(title)),
          den |-> Cardinality(ReviewsOf(title))]

(* rating = serializers.IntegerField(), to_representation: None stays      *)
(* None, any other value goes through int(), which drops the fraction.     *)
IntegerField(value) ==
    IF value.null THEN [null |-> TRUE, value |-> 0]
    ELSE [null |-> FALSE, value |-> value.num \div value.den]

(* ReadOnlyTitleSerializer, to_representation of one row of the queryset *)
ReadOnlyTitle(pk) ==
    [id |-> pk, name |-> titles[pk].name, rating |-> IntegerField(Avg(pk)),
     genre |-> GenresOf(pk), category |-> titles[pk].category]

(* TitleViewSet.list *)
TitleList(caller) ==
    /\ request' = [op |-> "title_list", caller |-> caller]
    /\ mail' = NoMail
    /\ UNCHANGED <<store, or_checks_has_permission>>
    /\ response' = IF ~CatalogPermission(caller, "GET").hp
                   THEN [status |-> Denied(caller)]
                   ELSE [status |-> 200,
                         data |-> [pk \in TitleIds |-> ReadOnlyTitle(pk)]]

(* TitleViewSet.retrieve *)
TitleRetrieve(caller, pk) ==
    LET perm == CatalogPermission(caller, "GET")
    IN  /\ request' = [op |-> "title_retrieve", caller |-> caller, pk |-> pk]
        /\ mail' = NoMail
        /\ UNCHANGED <<store, or_checks_has_permission>>
        /\ response' = IF ~perm.hp THEN [status |-> Denied(caller)]
                       ELSE IF pk \notin TitleIds THEN [status |-> 404]
                       ELSE IF ~perm.hop THEN [status |-> 403]
                       ELSE [status |-> 200, data |-> ReadOnlyTitle(pk)]

(* What deleting a review or a title does to the rows they own: the        *)
(* comments go with their review, the reviews and the GenreTitle rows with *)
(* their title.                                                            *)
OnDeleteReviews(pks) ==
    [pk \in {c \in CommentIds : comments[c].review \notin pks} |-> comments[pk]]

OnDeleteTitle(title) ==
    [pk \in ReviewIds \ ReviewsOf(title) |-> reviews[pk]]

(* TitleViewSet.destroy *)
TitleDestroy(caller, pk) ==
    LET perm == CatalogPermission(caller, "DELETE")
    IN  /\ request' = [op |-> "title_destroy", caller |-> caller, pk |-> pk]
        /\ mail' = NoMail
        /\ UNCHANGED <<users, categories, genres, seq, or_checks_has_permission>>
        /\ IF ~perm.hp \/ pk \notin TitleIds \/ ~perm.hop
           THEN /\ response' = [status |-> IF ~perm.hp THEN Denied(caller)
                                           ELSE IF pk \notin TitleIds THEN 404
                                           ELSE 403]
                /\ UNCHANGED <<titles, genre_title, reviews, comments>>
           ELSE /\ response' = [status |-> 204]
                /\ titles' = [i \in TitleIds \ {pk} |-> titles[i]]
                /\ genre_title' = genre_title \ RowsOf(pk)
                /\ reviews' = OnDeleteTitle(pk)
                /\ comments' = OnDeleteReviews(ReviewsOf(pk))

TitleLists == Idle /\ \E caller \in Callers : TitleList(caller)

TitleRetrieves ==
    /\ Idle
    /\ \E caller \in Callers, pk \in 1 .. MaxTitles : TitleRetrieve(caller, pk)

TitleDestroys ==
    /\ Idle
    /\ \E caller \in Callers, pk \in 1 .. MaxTitles : TitleDestroy(caller, pk)

(* ReviewViewSet.get_permissions *)
ReviewPermissions(action, method, u, author) ==
    IF action \in {"partial_update", "destroy"}
    THEN AND(IsAuthenticated(u),
             OR(OR(OR(IsAuthor(u, author), IsModerator(u)), IsAdmin(u)),
                IsSuperuser(u)))
    ELSE OR(AND(IsAuthenticated(u), IsAuthor(u, author)), IsReadOnly(method))

(* CommentViewSet.get_permissions *)
CommentPermissions(action, method, u, author) ==
    IF action \in {"partial_update", "destroy"}
    THEN AND(IsAuthenticated(u),
             OR(OR(OR(IsAuthor(u, author), IsModerator(u)), IsAdmin(u)),
                IsSuperuser(u)))
    ELSE OR(AND(IsAuthenticated(u), IsAuthor(u, author)), IsReadOnly(method))

Method(action) ==
    CASE action = "create" -> "POST"
      [] action = "update" -> "PUT"
      [] action = "partial_update" -> "PATCH"
      [] action = "destroy" -> "DELETE"
      [] OTHER -> "GET"

(* score = serializers.IntegerField(min_value=1, max_value=10); a payload  *)
(* score is the empty set (no score given) or a one-element set.           *)
ScoreValid(score) == \A v \in score : MinScore <= v /\ v <= MaxScore

(* A mutant of ReviewSerializer: Meta without its validators. *)
UniqueReviewUnchecked(self, author, title) == TRUE

(* The UniqueTogetherValidator of ReviewSerializer on (author, title);     *)
(* `self` is the row being updated (left out of the lookup), 0 on create.  *)
UniqueReview(self, author, title) ==
    \A pk \in ReviewIds \ {self} :
        ~(reviews[pk].author = author /\ reviews[pk].title = title)

(* ReviewViewSet.create with perform_create: the hidden title field takes  *)
(* its value from CreateTitleDefault (404 for a title that does not        *)
(* exist), the read-only author from CurrentUserDefault.                   *)
ReviewCreate(caller, title, score) ==
    LET pk == seq.review + 1
    IN  /\ request' = [op |-> "review_create", caller |-> caller,
                       title |-> title, score |-> score]
        /\ mail' = NoMail
        /\ UNCHANGED <<users, categories, genres, titles, genre_title,
                       comments, or_checks_has_permission>>
        /\ IF ~ReviewPermissions("create", "POST", caller, NoObject).hp
           THEN /\ response' = [status |-> Denied(caller)]
                /\ UNCHANGED <<reviews, seq>>
           ELSE IF title \notin TitleIds
           THEN /\ response' = [status |-> 404]
                /\ UNCHANGED <<reviews, seq>>
           ELSE IF score = {} \/ ~ScoreValid(score)
                   \/ ~UniqueReview(0, caller, title)
           THEN /\ response' = [status |-> 400]
                /\ UNCHANGED <<reviews, seq>>
           ELSE /\ seq.review < MaxReviews
                /\ seq' = [seq EXCEPT !.review = pk]
                /\ reviews' = [i \in ReviewIds \cup {pk} |->
                                 IF i = pk
                                 THEN [author |-> caller, title |-> title,
                                       score |-> CHOOSE v \in score : TRUE]
                                 ELSE reviews[i]]
                /\ response' = [status |-> 201, pk |-> pk]

(* get_queryset and get_object of ReviewViewSet: the title of the path     *)
(* must exist and the review must be one of its reviews.                   *)
ReviewFound(title, pk) ==
    /\ title \in TitleIds
    /\ pk \in ReviewIds
    /\ reviews[pk].title = title

(* ReviewViewSet.update (PUT) and partial_update (PATCH).  The author the  *)
(* unique-together validator looks up is the default of the read-only      *)
(* author field, the caller, on a full update, and the review's own author *)
(* on a partial one, where defaults are not applied.                       *)
ReviewUpdate(action, caller, title, pk, score) ==
    LET perm == ReviewPermissions(action, Method(action), caller,
                                  IF ReviewFound(title, pk)
                                  THEN reviews[pk].author ELSE NoObject)
        partial == action = "partial_update"
        looked_up == IF partial THEN reviews[pk].author ELSE caller
        valid == /\ partial \/ score # {}
                 /\ ScoreValid(score)
                 /\ UniqueReview(pk, looked_up, reviews[pk].title)
    IN  /\ request' = [op |-> "review_" \o action, caller |-> caller,
                       title |-> title, pk |-> pk, score |-> score]
        /\ mail' = NoMail
        /\ UNCHANGED <<users, categories, genres, titles, genre_title,
                       comments, seq, or_checks_has_permission>>
        /\ IF ~perm.hp
           THEN /\ response' = [status |-> Denied(caller)]
                /\ reviews' = reviews
           ELSE IF ~ReviewFound(title, pk)
           THEN /\ response' = [status |-> 404]
                /\ reviews' = reviews
           ELSE IF ~perm.hop
           THEN /\ response' = [status |-> 403]
                /\ reviews' = reviews
           ELSE IF ~valid
           THEN /\ response' = [status |-> 400]
                /\ reviews' = reviews
           ELSE /\ response' = [status |-> 200]
                /\ reviews' = IF score = {} THEN reviews
                              ELSE [reviews EXCEPT ![pk].score =
                                      CHOOSE v \in score : TRUE]

(* ReviewViewSet.destroy *)
ReviewDestroy(caller, title, pk) ==
    LET perm == ReviewPermissions("destroy", "DELETE", caller,
                                  IF ReviewFound(title, pk)
                                  THEN reviews[pk].author ELSE NoObject)
    IN  /\ request' = [op |-> "review_destroy", caller |-> caller,
                       title |-> title, pk |-> pk]
        /\ mail' = NoMail
        /\ UNCHANGED <<users, categories, genres, titles, genre_title, seq,
                       or_checks_has_permission>>
        /\ IF ~perm.hp \/ ~ReviewFound(title, pk) \/ ~perm.hop
           THEN /\ response' = [status |-> IF ~perm.hp THEN Denied(caller)
                                           ELSE IF ~ReviewFound(title, pk) THEN 404
                                           ELSE 403]
                /\ UNCHANGED <<reviews, comments>>
           ELSE /\ response' = [status |-> 204]
                /\ reviews' = [i \in ReviewIds \ {pk} |-> reviews[i]]
                /\ comments' = OnDeleteReviews({pk})

RawScores == {{}, {MinScore}, {MinScore + 1}, {MaxScore + 1}}

(* The callers who write reviews and comments: nobody, the two plain users *)
(* and the moderator.                                                      *)
Writers == {Anonymous, 2, 3, 4}

ReviewCreates ==
    /\ Idle
    /\ \E caller \in Writers, title \in 1 .. 3, score \in RawScores :
         ReviewCreate(caller, title, score)

ReviewUpdates ==
    /\ Idle
    /\ \E caller \in Callers, title \in 1 .. 2, pk \in 1 .. MaxReviews,
          score \in {{MinScore}, {MinScore + 1}} :
         ReviewUpdate("update", caller, title, pk, score)

ReviewPartialUpdates ==
    /\ Idle
    /\ \E caller \in Callers, title \in 1 .. 2, pk \in 1 .. MaxReviews,
          score \in RawScores \ {{MinScore}} :
         ReviewUpdate("partial_update", caller, title, pk, score)

ReviewDestroys ==
    /\ Idle
    /\ \E caller \in Callers, title \in 1 .. 2, pk \in 1 .. MaxReviews :
         ReviewDestroy(caller, title, pk)

(* get_queryset and get_object of CommentViewSet: the review of the path   *)
(* must exist and the comment must be one of its comments.                 *)
CommentFound(review, pk) ==
    /\ review \in ReviewIds
    /\ pk \in CommentIds
    /\ comments[pk].review = review

(* CommentViewSet.create with perform_create: the review is looked up      *)
(* once the payload is valid.                                              *)
CommentCreate(caller, review, text) ==
    LET pk == seq.comment + 1
    IN  /\ request' = [op |-> "comment_create", caller |-> caller,
                       review |-> review, text |-> text]
        /\ mail' = NoMail
        /\ UNCHANGED <<users, categories, genres, titles, genre_title,
                       reviews, or_checks_has_permission>>
        /\ IF ~CommentPermissions("create", "POST", caller, NoObject).hp
           THEN /\ response' = [status |-> Denied(caller)]
                /\ UNCHANGED <<comments, seq>>
           ELSE IF text = Missing \/ ~CharField(text).ok
           THEN /\ response' = [status |-> 400]
                /\ UNCHANGED <<comments, seq>>
           ELSE IF review \notin ReviewIds
           THEN /\ response' = [status |-> 404]
                /\ UNCHANGED <<comments, seq>>
           ELSE /\ seq.comment < MaxComments
                /\ seq' = [seq EXCEPT !.comment = pk]
                /\ comments' = [i \in CommentIds \cup {pk} |->
                                  IF i = pk
                                  THEN [author |-> caller, review |-> review,
                                        text |-> CharField(text).value]
                                  ELSE comments[i]]
                /\ response' = [status |-> 201, pk |-> pk]

(* CommentViewSet.update (PUT) and partial_update (PATCH) *)
CommentUpdate(action, caller, review, pk, text) ==
    LET perm == CommentPermissions(action, Method(action), caller,
                                   IF CommentFound(review, pk)
                                   THEN comments[pk].author ELSE NoObject)
        partial == action = "partial_update"
        valid == /\ partial \/ text # Missing
                 /\ text # Missing => CharField(text).ok
    IN  /\ request' = [op |-> "comment_" \o action, caller |-> caller,
                       review |-> review, pk |-> pk, text |-> text]
        /\ mail' = NoMail
        /\ UNCHANGED <<users, categories, genres, titles, genre_title,
                       reviews, seq, or_checks_has_permission>>
        /\ IF ~perm.hp
           THEN /\ response' = [status |-> Denied(caller)]
                /\ comments' = comments
           ELSE IF ~CommentFound(review, pk)
           THEN /\ response' = [status |-> 404]
                /\ comments' = comments
           ELSE IF ~perm.hop
           THEN /\ response' = [status |-> 403]
                /\ comments' = comments
           ELSE IF ~valid
           THEN /\ response' = [status |-> 400]
                /\ comments' = comments
           ELSE /\ response' = [status |-> 200]
                /\ comments' = IF text = Missing THEN comments
                               ELSE [comments EXCEPT ![pk].text =
                                       CharField(text).value]

(* CommentViewSet.destroy *)
CommentDestroy(caller, review, pk) ==
    LET perm == CommentPermissions("destroy", "DELETE", caller,
                                   IF CommentFound(review, pk)
                                   THEN comments[pk].author ELSE NoObject)
    IN  /\ request' = [op |-> "comment_destroy", caller |-> caller,
                       review |-> review, pk |-> pk]
        /\ mail' = NoMail
        /\ UNCHANGED <<users, categories, genres, titles, genre_title,
                       reviews, seq, or_checks_has_permission>>
        /\ IF ~perm.hp \/ ~CommentFound(review, pk) \/ ~perm.hop
           THEN /\ response' = [status |-> IF ~perm.hp THEN Denied(caller)
                                           ELSE IF ~CommentFound(review, pk) THEN 404
                                           ELSE 403]
                /\ comments' = comments
           ELSE /\ response' = [status |-> 204]
                /\ comments' = [i \in CommentIds \ {pk} |-> comments[i]]

RawTexts == {Missing, Str("t"), Blank}

CommentCreates ==
    /\ Idle
    /\ \E caller \in Writers, review \in 1 .. MaxReviews, text \in RawTexts :
         CommentCreate(caller, review, text)

CommentUpdates ==
    /\ Idle
    /\ \E caller \in Callers, review \in 1 .. MaxReviews,
          pk \in 1 .. MaxComments, text \in {Missing, Str("u")} :
         CommentUpdate("update", caller, review, pk, text)

CommentPartialUpdates ==
    /\ Idle
    /\ \E caller \in Callers, review \in 1 .. MaxReviews,
          pk \in 1 .. MaxComments, text \in {Missing, Str("u")} :
         CommentUpdate("partial_update", caller, review, pk, text)

CommentDestroys ==
    /\ Idle
    /\ \E caller \in Callers, review \in 1 .. MaxReviews,
          pk \in 1 .. MaxComments :
         CommentDestroy(caller, review, pk)

-----------------------------------------------------------------------------
(* The service as far as the accounts go: one superuser made with          *)
(* createsuperuser, nothing else yet.                                      *)

InitAuth ==
    /\ users = <<Superuser0>>
    /\ categories = {}
    /\ genres = {}
    /\ titles = <<>>
    /\ genre_title = {}
    /\ reviews = <<>>
    /\ comments = <<>>
    /\ seq = [title |-> 0, review |-> 0, comment |-> 0]
    /\ or_checks_has_permission \in BOOLEAN
    /\ request = NoRequest
    /\ response = NoResponse
    /\ mail = NoMail

NextAuth ==
    \/ Register
    \/ ObtainToken
    \/ UsersCreate
    \/ UsersPartialUpdate
    \/ MeGet
    \/ MePatch
    \/ Deliver

SpecAuth == InitAuth /\ [][NextAuth]_vars

(* The accounts the catalog and the reviews are exercised with: the        *)
(* superuser, two plain users, a moderator and an admin.                   *)
Account(name, r) ==
    [username |-> Str(name), email |-> <<name, "@">>, role |-> r,
     is_superuser |-> FALSE, confirmation_code |-> Str(name)]

Accounts ==
    <<Superuser0, Account("a", "user"), Account("b", "user"),
      Account("m", "moderator"), Account("d", "admin")>>

(* The catalog, empty, with the accounts in place. *)
InitCatalog ==
    /\ users = Accounts
    /\ categories = {}
    /\ genres = {}
    /\ titles = <<>>
    /\ genre_title = {}
    /\ reviews = <<>>
    /\ comments = <<>>
    /\ seq = [title |-> 0, review |-> 0, comment |-> 0]
    /\ or_checks_has_permission \in BOOLEAN
    /\ request = NoRequest
    /\ response = NoResponse
    /\ mail = NoMail

NextCatalog ==
    \/ SlugNameLists
    \/ CategoryCreates
    \/ CategoryDestroys
    \/ GenreCreates
    \/ GenreDestroys
    \/ TitleCreates
    \/ TitlePartialUpdates
    \/ TitleUpdates
    \/ TitleLists
    \/ TitleRetrieves
    \/ TitleDestroys
    \/ Deliver

SpecCatalog == InitCatalog /\ [][NextCatalog]_vars

(* Two titles in the catalog, no review yet. *)
InitReviews ==
    /\ users = Accounts
    /\ categories = {"c1"}
    /\ genres = {"g1"}
    /\ titles = <<[name |-> Str("n"), category |-> "c1"],
                  [name |-> Str("o"), category |-> "c1"]>>
    /\ genre_title = {<<1, "g1">>}
    /\ reviews = <<>>
    /\ comments = <<>>
    /\ seq = [title |-> 2, review |-> 0, comment |-> 0]
    /\ or_checks_has_permission \in BOOLEAN
    /\ request = NoRequest
    /\ response = NoResponse
    /\ mail = NoMail

NextReviews ==
    \/ ReviewCreates
    \/ ReviewUpdates
    \/ ReviewPartialUpdates
    \/ ReviewDestroys
    \/ TitleLists
    \/ TitleRetrieves
    \/ Deliver

SpecReviews == InitReviews /\ [][NextReviews]_vars

(* The same with the comments. *)
NextModeration ==
    \/ ReviewCreates
    \/ ReviewUpdates
    \/ ReviewPartialUpdates
    \/ ReviewDestroys
    \/ CommentCreates
    \/ CommentUpdates
    \/ CommentPartialUpdates
    \/ CommentDestroys
    \/ Deliver

SpecModeration == InitReviews /\ [][NextModeration]_vars

-----------------------------------------------------------------------------
(* Properties of registration, token issuance and the self-profile.        *)

Matching(username, email) ==
    {i \in UserIds : users[i].username = username /\ users[i].email = email}

(* C6, as the claim states it: a token request answers not-found when no   *)
(* user has the supplied username, a validation error when the user exists *)
(* and the supplied code differs from the stored one, and a token bound to *)
(* that user when the supplied code equals the stored one; the stored code *)
(* is never changed.                                                       *)
C6_TokenByRawValues ==
    [][request'.op = "token" =>
        LET found == ByUsername(request'.username)
        IN  /\ users' = users
            /\ found = {} => response'.status = 404
            /\ \A u \in found :
                 IF request'.confirmation_code = users[u].confirmation_code
                 THEN response'.status = 200 /\ response'.token = u
                 ELSE response'.status = 400]_vars

(* C6, amended: the username and the code are compared once stripped of    *)
(* surrounding whitespace.  A request whose username or code is blank      *)
(* answers a validation error; otherwise not-found when no user has the    *)
(* stripped username, a validation error when the stripped code differs    *)
(* from the stored code, and a token bound to that user when it equals the *)
(* stored code.  No token request changes a stored code or any user.       *)
C6_TokenByStrippedValues ==
    [][request'.op = "token" =>
        LET name  == Strip(request'.username)
            code  == Strip(request'.confirmation_code)
            found == ByUsername(name)
        IN  /\ users' = users
            /\ IF name = Blank \/ code = Blank
               THEN response'.status = 400
               ELSE /\ found = {} => response'.status = 404
                    /\ \A u \in found :
                         IF code = users[u].confirmation_code
                         THEN response'.status = 200 /\ response'.token = u
                         ELSE response'.status = 400]_vars

(* A token was issued for a code sent with surrounding whitespace, to a    *)
(* user whose stored code is left as it was.                               *)
C6_Witness ==
    /\ request.op = "token"
    /\ response.status = 200
    /\ request.confirmation_code # Strip(request.confirmation_code)
    /\ users[response.token].confirmation_code = Strip(request.confirmation_code)

(* C7: a registration whose (username, email) pair is that of an existing  *)
(* user creates no user and changes none, so the stored code stays and the *)
(* username still names one user; the mail it sends goes to the given      *)
(* address and carries exactly the stored code, and it answers 200 when    *)
(* the mail was sent.                                                      *)
C7_ResendKeepsUserAndCode ==
    [][request'.op = "register"
       /\ Matching(request'.username, request'.email) # {} =>
        /\ users' = users
        /\ Cardinality({i \in 1 .. Len(users') :
                          users'[i].username = request'.username}) = 1
        /\ \A u \in Matching(request'.username, request'.email) :
             IF mail'.sent
             THEN /\ mail' = Mail(request'.email, users[u].confirmation_code)
                  /\ response'.status = 200
             ELSE response'.status = 400]_vars

(* A registration repeated for a user who has been made an admin since     *)
(* (so the request did not create the row) was answered 200 with the       *)
(* stored code mailed.                                                     *)
C7_Witness ==
    /\ request.op = "register"
    /\ response.status = 200
    /\ \E u \in Matching(request.username, request.email) :
         /\ users[u].role = "admin"
         /\ users[u].confirmation_code \in Codes
         /\ mail = Mail(request.email, users[u].confirmation_code)

(* C8: a registration with username "me" answers a validation error for    *)
(* every email, creates no user and sends no confirmation code.            *)
C8_MeNeverRegisters ==
    [][request'.op = "register" /\ request'.username = ME =>
        /\ response'.status = 400
        /\ users' = users
        /\ ~mail'.sent]_vars

(* C10: a self-profile request changes no user's role and no row but the   *)
(* caller's, and what it returns is the caller's own row.                  *)
C10_MeKeepsRoles ==
    [][request'.op \in {"me_get", "me_patch"} =>
        /\ Len(users') = Len(users)
        /\ \A i \in UserIds :
             /\ users'[i].role = users[i].role
             /\ users'[i].is_superuser = users[i].is_superuser
             /\ i # request'.caller => users'[i] = users[i]
        /\ request'.op = "me_get" => users' = users
        /\ response'.status = 200 =>
             /\ response'.pk = request'.caller
             /\ response'.data = users'[request'.caller]]_vars

(* A self-profile PATCH that carried a new username and the role "admin"   *)
(* succeeded, renamed the caller and left the caller a plain user.         *)
C10_Witness ==
    /\ request.op = "me_patch"
    /\ response.status = 200
    /\ request.role = "admin"
    /\ request.username = ME
    /\ request.caller > 1
    /\ users[request.caller].username = ME
    /\ users[request.caller].role = "user"

-----------------------------------------------------------------------------
(* Properties of the catalog.                                              *)

CatalogWrites ==
    {"create", "destroy", "title_create", "title_update",
     "title_partial_update", "title_destroy"}

CatalogReads == {"list", "title_list", "title_retrieve"}

catalog == <<categories, genres, titles, genre_title>>

AdminOrSuperuser(u) ==
    /\ u # Anonymous
    /\ users[u].role = "admin" \/ users[u].is_superuser

Refused(status) == status \in {401, 403}

(* C2: a create, update or delete on categories, genres and titles passes  *)
(* the permission check exactly when the caller is authenticated and is an *)
(* admin or a superuser, and a refused request leaves the catalog as it    *)
(* was; a list or retrieve is refused to nobody.                           *)
C2_CatalogWritesForAdminsOnly ==
    [][/\ request'.op \in CatalogWrites =>
            /\ ~Refused(response'.status) <=> AdminOrSuperuser(request'.caller)
            /\ ~AdminOrSuperuser(request'.caller) => catalog' = catalog
       /\ request'.op \in CatalogReads =>
            /\ response'.status \in {200, 404}
            /\ catalog' = catalog]_vars

(* A moderator was refused the update of a title that has genres. *)
C2_Witness ==
    /\ request.op = "title_partial_update"
    /\ request.caller # Anonymous
    /\ users[request.caller].role = "moderator"
    /\ response.status = 403
    /\ request.pk \in TitleIds
    /\ GenresOf(request.pk) # {}

(* C3: a title update whose payload carries no genre field leaves the      *)
(* GenreTitle rows of the title as they were.                              *)
C3_OmittedGenreKeepsRows ==
    [][/\ request'.op = "title_partial_update" /\ request'.genre = MissingList
            => genre_title' = genre_title
       /\ request'.op = "title_update" => genre_title' = genre_title]_vars

(* C4: a title update that carries a list of existing genres, from a       *)
(* caller allowed to make it, on a title that exists, with a payload that  *)
(* passes validation, succeeds; the genres of the title are then exactly   *)
(* those of the list and the name supplied is the name of the title.       *)
C4_SuppliedGenresReplaceRows ==
    [][/\ request'.op = "title_partial_update"
       /\ request'.genre # MissingList
       /\ request'.genre \subseteq genres
       /\ response'.status \notin {400, 401, 403, 404}
       => /\ response'.status = 200
          /\ {row \in genre_title' : row[1] = request'.pk}
               = {<<request'.pk, g>> : g \in request'.genre}
          /\ request'.name # Missing =>
               titles'[request'.pk].name = Strip(request'.name)]_vars

-----------------------------------------------------------------------------
(* Properties of reviews, comments and ratings.                            *)

ObjectWrites == {"update", "partial_update", "destroy"}

(* The author of the review or comment a request is about, when the path   *)
(* of the request leads to one.                                            *)
Target(req) ==
    IF req.op \in {"review_" \o a : a \in ObjectWrites}
    THEN IF ReviewFound(req.title, req.pk) THEN {reviews[req.pk].author} ELSE {}
    ELSE IF req.op \in {"comment_" \o a : a \in ObjectWrites}
    THEN IF CommentFound(req.review, req.pk) THEN {comments[req.pk].author} ELSE {}
    ELSE {}

PlainUser(u) ==
    /\ u # Anonymous
    /\ users[u].role = "user"
    /\ ~users[u].is_superuser

(* C1: an update (full or partial) or a delete of a review or a comment by *)
(* an authenticated caller who is not its author, a moderator, an admin or *)
(* a superuser answers 403 and changes nothing; its author is never        *)
(* refused.                                                                *)
C1_OnlyAuthorAndStaffWrite ==
    [][\A author \in Target(request') :
         /\ PlainUser(request'.caller) /\ request'.caller # author =>
              /\ response'.status = 403
              /\ reviews' = reviews
              /\ comments' = comments
         /\ request'.caller = author => ~Refused(response'.status)]_vars

Rated(pk, rating) ==
    LET of == ReviewsOf(pk)
    IN  IF of = {} THEN rating.null
        ELSE /\ ~rating.null
             /\ rating.value * Cardinality(of) = SumScores(of)

RatedWhole(pk, rating) ==
    LET of == ReviewsOf(pk)
    IN  IF of = {} THEN rating.null
        ELSE /\ ~rating.null
             /\ rating.value * Cardinality(of) <= SumScores(of)
             /\ SumScores(of) < (rating.value + 1) * Cardinality(of)

OneReviewPerAuthorAndTitle ==
    \A p \in ReviewIds, q \in ReviewIds :
        reviews[p].author = reviews[q].author /\ reviews[p].title = reviews[q].title
            => p = q

(* C9: there is at most one review per (author, title) pair at any time;   *)
(* the creation of a second review by the author of one on the same title  *)
(* answers a validation error and adds none, and the creation of a review  *)
(* with a valid score on a title by an authenticated caller who has none   *)
(* on it succeeds, whoever else reviewed the title.                        *)
C9_OneReviewPerAuthorAndTitle ==
    /\ []OneReviewPerAuthorAndTitle
    /\ [][request'.op = "review_create" /\ request'.title \in TitleIds
          /\ request'.caller # Anonymous =>
            IF \E pk \in ReviewsOf(request'.title) :
                 reviews[pk].author = request'.caller
            THEN response'.status = 400 /\ reviews' = reviews
            ELSE request'.score # {} /\ ScoreValid(request'.score) =>
                   /\ response'.status = 201
                   /\ DOMAIN reviews' = ReviewIds \cup {response'.pk}
                   /\ response'.pk \notin ReviewIds
                   /\ reviews'[response'.pk].author = request'.caller
                   /\ reviews'[response'.pk].title = request'.title]_vars

(* A second author's review of a title was created next to the first one's. *)
C9_Witness ==
    /\ request.op = "review_create"
    /\ response.status = 201
    /\ \E pk \in ReviewsOf(request.title) :
         /\ pk # response.pk
         /\ reviews[pk].author # request.caller

====
